---- MODULE Spec2Model ----
(***************************************************************************)
(* Model of the patient-registration submission pipeline of                *)
(* websocket-server/src/functionHandlers.ts: validatePatientData,          *)
(* isNetworkError, fetchWithRetry and the save_patient_details handler.    *)
(*                                                                         *)
(* Strings that the code only stores or compares are TLA+ strings.         *)
(* Field values are sequences of characters (so that trim() is computed),  *)
(* error messages and response bodies are sequences of words (so that      *)
(* toLowerCase() and includes() are computed).                             *)
(***************************************************************************)
EXTENDS Integers, Sequences, FiniteSets, TLC

\* ------------------------------------------------------------------ bounds
\* number of fields of the complete record that an input record may change
MaxEdits == 2
\* the same, for the records handed to the save_patient_details handler
SubmitEdits == 1

\* ------------------------------------------------------- JavaScript values
\* a string value, as its characters
Str(chars) == [type |-> "string", chars |-> chars]
\* the value null
Null == [type |-> "null", chars |-> <<>>]
\* what a lookup of a key that is not in the object gives
Absent == [type |-> "absent", chars |-> <<>>]
\* an object, as its own entries in key order
Obj(entries) == [type |-> "object", entries |-> entries]
\* a sub-record that is not there
Undefined == [type |-> "undefined", entries |-> <<>>]

\* ---------------------------------------------------------- the data model
\* interface PatientInformation, in declaration order
PatientInformationFields ==
  <<"FirstName", "LastName", "DateOfBirth", "SSN", "EmailID",
    "MaritalStatus", "PhoneNumber">>

\* interface Address, in declaration order
AddressFields ==
  <<"Type", "AddressLine1", "City", "State", "Country", "ZipCode">>

FieldsOf(group) ==
  IF group = "PatientInformation" THEN PatientInformationFields
  ELSE AddressFields

Range(s) == {s[i] : i \in DOMAIN s}

\* every required field, as <<sub-record, field>>
Slots ==
  {<<g, f>> : g \in {"PatientInformation"}, f \in Range(PatientInformationFields)}
  \cup {<<g, f>> : g \in {"Address"}, f \in Range(AddressFields)}

\* the template `${group}.${key}`
Path(group, key) == group \o "." \o key

\* the dotted paths in declaration order: PatientInformation first, then
\* Address, each in its declared field order
DeclaredPaths ==
  [i \in 1..Len(PatientInformationFields) |->
      Path("PatientInformation", PatientInformationFields[i])]
  \o [i \in 1..Len(AddressFields) |-> Path("Address", AddressFields[i])]

\* ------------------------------------------------------ String.prototype.trim
IsSpace(c) == c = " "

RECURSIVE TrimStart(_)
TrimStart(s) ==
  IF s = <<>> THEN <<>>
  ELSE IF IsSpace(Head(s)) THEN TrimStart(Tail(s)) ELSE s

RECURSIVE TrimEnd(_)
TrimEnd(s) ==
  IF s = <<>> THEN <<>>
  ELSE IF IsSpace(s[Len(s)]) THEN TrimEnd(SubSeq(s, 1, Len(s) - 1)) ELSE s

Trim(s) == TrimEnd(TrimStart(s))

\* ------------------------------------------------------------------ errors
\* a thrown value: an Error with a message, or a value carrying no message
Err(msg) == [hasMessage |-> TRUE, message |-> msg]
NoMessageError == [hasMessage |-> FALSE, message |-> <<>>]

\* TypeError of Object.entries(undefined)
EntriesTypeError ==
  Err(<<"Cannot", "convert", "undefined", "or", "null", "to", "object">>)

\* ------------------------------------------------------ validatePatientData
\* `!value || value.trim() === ""` of one entry
EntryMissing_FirstChar(value) ==
  IF value.type = "null" THEN TRUE
  ELSE IF value.chars = <<>> THEN TRUE
  ELSE IsSpace(Head(value.chars))

EntryMissing(value) ==
  IF value.type = "null" THEN TRUE
  ELSE IF value.chars = <<>> THEN TRUE
  ELSE Trim(value.chars) = <<>>

\* Object.entries(obj).forEach(...): the entries in the object's own key
\* order; pushes `${group}.${key}` for each entry whose value is missing
RECURSIVE CollectMissing(_, _)
CollectMissing(group, entries) ==
  IF entries = <<>> THEN <<>>
  ELSE (IF EntryMissing(Head(entries).value)
        THEN <<Path(group, Head(entries).key)>>
        ELSE <<>>)
       \o CollectMissing(group, Tail(entries))

\* the result of the call: the missing paths, or the TypeError that
\* Object.entries throws for a sub-record that is undefined
validatePatientData(data) ==
  IF data.PatientInformation.type = "undefined" \/ data.Address.type = "undefined"
  THEN [threw |-> TRUE, error |-> EntriesTypeError, missing |-> <<>>]
  ELSE [threw |-> FALSE, error |-> NoMessageError,
        missing |-> CollectMissing("PatientInformation",
                                   data.PatientInformation.entries)
                    \o CollectMissing("Address", data.Address.entries)]

\* ------------------------------------------------------------ input records
GoodValue == Str(<<"x">>)
PaddedValue == Str(<<" ", "x", " ">>)

\* what an edit does to one field of the complete record
EditKinds == {Absent, Null, Str(<<>>), Str(<<" ">>), PaddedValue}

Reverse(s) == [i \in 1..Len(s) |-> s[Len(s) + 1 - i]]

\* the key orders an incoming object may have
KeyOrders(group) == {FieldsOf(group), Reverse(FieldsOf(group))}

\* the sets of at most n edits
EditSets(n) ==
  UNION {[S -> EditKinds] : S \in {T \in SUBSET Slots : Cardinality(T) <= n}}

\* the value the edited record holds for a field (Absent: no such key)
EditedValue(edits, group, f) ==
  IF <<group, f>> \in DOMAIN edits THEN edits[<<group, f>>] ELSE GoodValue

\* the entries of one sub-record, in key order, absent keys left out
RECURSIVE MakeEntries(_, _, _)
MakeEntries(group, order, edits) ==
  IF order = <<>> THEN <<>>
  ELSE (IF EditedValue(edits, group, Head(order)) = Absent THEN <<>>
        ELSE <<[key |-> Head(order),
                value |-> EditedValue(edits, group, Head(order))]>>)
       \o MakeEntries(group, Tail(order), edits)

MakeRecord(piOrder, adOrder, edits) ==
  [PatientInformation |->
      Obj(MakeEntries("PatientInformation", piOrder, edits)),
   Address |-> Obj(MakeEntries("Address", adOrder, edits))]

CompleteRecord ==
  MakeRecord(PatientInformationFields, AddressFields, <<>>)

\* records with a sub-record missing altogether
MalformedRecords ==
  {[CompleteRecord EXCEPT !.PatientInformation = Undefined],
   [CompleteRecord EXCEPT !.Address = Undefined]}

Records(n) ==
  {MakeRecord(po, ao, e) : po \in KeyOrders("PatientInformation"),
                           ao \in KeyOrders("Address"),
                           e \in EditSets(n)}
  \cup MalformedRecords

\* the same records, with the keys of both sub-records in declaration order
\* or both reversed
SubmitRecords(n) ==
  {MakeRecord(PatientInformationFields, AddressFields, e) : e \in EditSets(n)}
  \cup {MakeRecord(Reverse(PatientInformationFields), Reverse(AddressFields), e) :
           e \in EditSets(n)}
  \cup MalformedRecords

\* ------------------------------------------------ reading a record (for the
\* properties; independent of validatePatientData)
HasSubRecords(data) ==
  data.PatientInformation.type = "object" /\ data.Address.type = "object"

\* the value stored under a field, Absent when the key is not there
FieldValue(data, slot) ==
  LET entries == data[slot[1]].entries
      hits == {i \in DOMAIN entries : entries[i].key = slot[2]}
  IN IF hits = {} THEN Absent ELSE entries[CHOOSE i \in hits : TRUE].value

IsBlank(v) == v.type = "string" /\ \A i \in DOMAIN v.chars : v.chars[i] = " "

\* a required field that is absent, null, empty or only whitespace
FieldIsMissing(data, slot) ==
  LET v == FieldValue(data, slot)
  IN v = Absent \/ v = Null \/ IsBlank(v)

\* every one of the 13 fields present and non-blank
Complete(data) ==
  HasSubRecords(data) /\ \A slot \in Slots : ~FieldIsMissing(data, slot)


\* ------------------------------------------------- strings as word sequences
\* String.prototype.toLowerCase, word by word
LowerWord(w) ==
  CASE w = "Failed" -> "failed"
    [] w = "Network" -> "network"
    [] w = "Error" -> "error"
    [] w = "NetworkError" -> "networkerror"
    [] w = "Load" -> "load"
    [] w = "Connection" -> "connection"
    [] w = "ECONNREFUSED" -> "econnrefused"
    [] w = "ENOTFOUND" -> "enotfound"
    [] w = "ETIMEDOUT" -> "etimedout"
    [] w = "API" -> "api"
    [] w = "No" -> "no"
    [] w = "Internal" -> "internal"
    [] w = "This" -> "this"
    [] w = "Cannot" -> "cannot"
    [] w = "Unexpected" -> "unexpected"
    [] w = "JSON" -> "json"
    [] OTHER -> w

toLowerCase(s) == [i \in 1..Len(s) |-> LowerWord(s[i])]

\* String.prototype.includes: needle occurs as a contiguous part of hay
includes(hay, needle) ==
  \E i \in 0..(Len(hay) - Len(needle)) :
     SubSeq(hay, i + 1, i + Len(needle)) = needle

\* ---------------------------------------------------- network error helpers
NETWORK_ERROR_MESSAGES ==
  << <<"Failed", "to", "fetch">>,
     <<"Network", "Error">>,
     <<"NetworkError", "when", "attempting", "to", "fetch", "resource">>,
     <<"Load", "failed">>,
     <<"network", "error">>,
     <<"Connection", "failed">>,
     <<"ECONNREFUSED">>,
     <<"ENOTFOUND">>,
     <<"ETIMEDOUT">> >>

\* TypeError of `error.message.toLowerCase()` when message is undefined
ToLowerTypeError ==
  Err(<<"Cannot", "read", "properties", "of", "undefined">>)

\* isNetworkError throws instead of returning when the value has no message
isNetworkErrorThrows(error) == ~error.hasMessage

\* the message is compared as it is
isNetworkError_CaseSensitive(error) ==
  \E i \in DOMAIN NETWORK_ERROR_MESSAGES :
     includes(error.message, toLowerCase(NETWORK_ERROR_MESSAGES[i]))

\* NETWORK_ERROR_MESSAGES.some(msg => message.toLowerCase().includes(msg.toLowerCase()))
isNetworkError(error) ==
  \E i \in DOMAIN NETWORK_ERROR_MESSAGES :
     includes(toLowerCase(error.message), toLowerCase(NETWORK_ERROR_MESSAGES[i]))

\* --------------------------------------------------------- the retry policy
\* one attempt more than the default
maxRetries_OneMore == 3 + 1

\* the default of the parameter maxRetries
maxRetries == 3
\* the default of the parameter delay, in ms
delay == 1000

RECURSIVE Pow2(_)
Pow2(n) == IF n = 0 THEN 1 ELSE 2 * Pow2(n - 1)

waitTime_Doubled(n) == delay * Pow2(n)

\* delay * Math.pow(2, attempt - 1)
waitTime(n) == delay * Pow2(n - 1)

\* gives up one attempt early
RetryDecision_EarlyStop(n, error) ==
  IF n >= maxRetries - 1 THEN "throw"
  ELSE IF isNetworkErrorThrows(error) THEN "typeerror"
  ELSE IF ~isNetworkError(error) THEN "throw"
  ELSE "wait"

\* leaves the attempt limit to the loop condition
RetryDecision_NoLimit(n, error) ==
  IF isNetworkErrorThrows(error) THEN "typeerror"
  ELSE IF ~isNetworkError(error) THEN "throw"
  ELSE "wait"

\* `&&` in place of `||`
RetryDecision_And(n, error) ==
  IF isNetworkErrorThrows(error) THEN "typeerror"
  ELSE IF n = maxRetries /\ ~isNetworkError(error) THEN "throw"
  ELSE IF n = maxRetries THEN "throw"
  ELSE "wait"

\* the catch block of the retry loop: rethrow the error, fail inside
\* isNetworkError with a TypeError, or wait and go round again
RetryDecision(n, error) ==
  IF n = maxRetries THEN "throw"
  ELSE IF isNetworkErrorThrows(error) THEN "typeerror"
  ELSE IF ~isNetworkError(error) THEN "throw"
  ELSE "wait"

\* the error thrown past the loop
MaxRetriesError == Err(<<"Max", "retries", "exceeded">>)

\* ------------------------------------------------------------ the transport
\* rejection of fetch after controller.abort()
AbortError == Err(<<"This", "operation", "was", "aborted">>)

\* what fetch may reject with, other than an abort
ThrownErrors ==
  {Err(<<"connect", "ECONNREFUSED">>),
   Err(<<"fetch", "failed">>),
   NoMessageError}

\* what reading a response body may reject with
BodyErrors == {Err(<<"terminated">>), NoMessageError}

OkStatuses == {200}
BadStatuses == {500, 503, 429}
ContentTypes ==
  {<<>>, <<"text/plain">>, <<"application/json", ";", "charset=utf-8">>}
OkBodies == {<<>>, <<" ">>, <<"{", "}">>, <<"{">>}
BadBodies == {<<>>, <<"Internal", "error">>, <<"ECONNREFUSED">>}

Responses ==
  [status : OkStatuses, contentType : ContentTypes, body : OkBodies]
  \cup [status : BadStatuses, contentType : {<<"text/plain">>}, body : BadBodies]

NoResponse == [status |-> 0, contentType |-> <<>>, body |-> <<>>]

ok_NoUpperBound(r) == r.status >= 200

\* Response.ok
ok(r) == r.status >= 200 /\ r.status <= 299

\* JSON.parse of a body text
JsonTexts == {<<"{", "}">>}
JsonSyntaxError == Err(<<"Unexpected", "end", "of", "JSON", "input">>)
JSONparse(text) ==
  IF Trim(text) \in JsonTexts
  THEN [threw |-> FALSE, value |-> [json |-> Trim(text)], error |-> NoMessageError]
  ELSE [threw |-> TRUE, value |-> [json |-> <<>>], error |-> JsonSyntaxError]

\* the object { success: true }
SuccessMarker == [json |-> <<"{", "success", ":", "true", "}">>]


\* ------------------------------------------------------------------- state
VARIABLES
  args,        \* the record the handler was called with
  pc,          \* where the invocation is suspended, or how it ended
  missing,     \* missingFields, the result of validatePatientData
  attempt,     \* the loop counter of fetchWithRetry
  calls,       \* number of fetch calls issued
  waits,       \* the backoff waits started, in order
  timers,      \* attempts whose 30 s timeout timer is still pending
  log,         \* how each fetch call ended, in order
  response,    \* the Response fetchWithRetry returned
  textRead,    \* how reading the body ended: "none", "resolved", "rejected"
  outcome,     \* the object the handler returned
  fault,       \* the error the handler rejected with
  other        \* the variables of a second invocation, while it is not running

vars == <<args, pc, missing, attempt, calls, waits, timers, log, response,
          textRead, outcome, fault, other>>

NoOutcome == [pending |-> TRUE]
NoFault == [hasMessage |-> FALSE, message |-> <<"none">>]

LogError(e) == [kind |-> "error", error |-> e, response |-> NoResponse]
LogTimeout == [kind |-> "timeout", error |-> AbortError, response |-> NoResponse]
LogResponse(r) == [kind |-> "response", error |-> NoMessageError, response |-> r]

\* the variables of an invocation that has just been called with record a
StartLocals(a) ==
  [args |-> a, pc |-> "start", missing |-> <<>>, attempt |-> 0, calls |-> 0,
   waits |-> <<>>, timers |-> {}, log |-> <<>>, response |-> NoResponse,
   textRead |-> "none", outcome |-> NoOutcome, fault |-> NoFault]

\* there is no second invocation
NoInvocation == [StartLocals(CompleteRecord) EXCEPT !.pc = "none"]

InitWith(records) ==
  /\ args \in records
  /\ pc = "start"
  /\ missing = <<>>
  /\ attempt = 0
  /\ calls = 0
  /\ waits = <<>>
  /\ timers = {}
  /\ log = <<>>
  /\ response = NoResponse
  /\ textRead = "none"
  /\ outcome = NoOutcome
  /\ fault = NoFault
  /\ other = NoInvocation

\* ------------------------------------------------- the validator, on its own
Validate ==
  /\ pc = "start"
  /\ ~validatePatientData(args).threw
  /\ missing' = validatePatientData(args).missing
  /\ pc' = "validated"
  /\ UNCHANGED <<other, args, attempt, calls, waits, timers, log, response,
                 textRead, outcome, fault>>

ValidateThrows ==
  /\ pc = "start"
  /\ validatePatientData(args).threw
  /\ fault' = validatePatientData(args).error
  /\ pc' = "threw"
  /\ UNCHANGED <<other, args, missing, attempt, calls, waits, timers, log, response,
                 textRead, outcome>>

InitValidate == InitWith(Records(MaxEdits))
NextValidate == Validate \/ ValidateThrows
SpecValidate == InitValidate /\ [][NextValidate]_vars

\* ------------------------------------------------------ the handler's pieces
ValidationFails_AtLeastTwo(m) == Len(m) > 1

\* `missingFields.length > 0`
ValidationFails(m) == Len(m) > 0

\* missingFields.join(", ")
RECURSIVE join(_)
join(m) ==
  IF m = <<>> THEN <<>>
  ELSE IF Len(m) = 1 THEN m
  ELSE <<Head(m), ",">> \o join(Tail(m))

\* `Missing required fields: ${missingFields.join(", ")}`
MissingMessage(m) == <<"Missing", "required", "fields", ":">> \o join(m)

ApiErrorMessage_NoStatus(status, errorText) ==
  <<"API", "responded", "with", "error", ":">>
  \o (IF errorText = <<>> THEN <<"No", "details">> ELSE errorText)

\* `API responded with ${response.status}: ${errorText || "No details"}`
ApiErrorMessage(status, errorText) ==
  <<"API", "responded", "with", ToString(status), ":">>
  \o (IF errorText = <<>> THEN <<"No", "details">> ELSE errorText)

\* the handler's catch block: the failure object, or the TypeError that
\* isNetworkError(error) throws out of the catch block
HandlerCatch(error) ==
  IF isNetworkErrorThrows(error)
  THEN /\ pc' = "rejected"
       /\ fault' = ToLowerTypeError
       /\ outcome' = outcome
  ELSE /\ pc' = "done"
       /\ outcome' = [success |-> FALSE,
                      error |-> error.message,
                      isNetworkError |-> isNetworkError(error)]
       /\ fault' = fault

\* the catch block of the retry loop, for the error of the current attempt
LoopCatch(error) ==
  LET d == RetryDecision(attempt, error)
  IN IF d = "wait"
     THEN /\ pc' = "backoff"
          /\ waits' = Append(waits, waitTime(attempt))
          /\ UNCHANGED <<outcome, fault>>
     ELSE /\ HandlerCatch(IF d = "typeerror" THEN ToLowerTypeError ELSE error)
          /\ waits' = waits

\* one iteration of the retry loop up to `await fetch(...)`
StartAttempt(n) ==
  /\ attempt' = n
  /\ timers' = timers \cup {n}
  /\ calls' = calls + 1
  /\ pc' = "fetch"

\* --------------------------------------------------------------- the handler
\* the handler up to its first await
Submit ==
  /\ pc = "start"
  /\ LET v == validatePatientData(args)
     IN IF v.threw
        THEN /\ HandlerCatch(v.error)
             /\ UNCHANGED <<missing, attempt, calls, timers>>
        ELSE /\ missing' = v.missing
             /\ IF ValidationFails(v.missing)
                THEN /\ pc' = "done"
                     /\ outcome' = [success |-> FALSE,
                                    error |-> MissingMessage(v.missing)]
                     /\ UNCHANGED <<attempt, calls, timers, fault>>
                ELSE /\ StartAttempt(1)
                     /\ UNCHANGED <<outcome, fault>>
  /\ UNCHANGED <<other, args, waits, log, response, textRead>>

\* fetch resolves: clearTimeout, return to the handler, which goes on to
\* its next await or to its return
FetchResolves ==
  /\ pc = "fetch"
  /\ \E r \in Responses :
       /\ log' = Append(log, LogResponse(r))
       /\ response' = r
       /\ timers' = timers \ {attempt}
       /\ IF ~ok(r)
          THEN pc' = "errText" /\ outcome' = outcome
          ELSE IF includes(r.contentType, <<"application/json">>)
          THEN pc' = "text" /\ outcome' = outcome
          ELSE /\ pc' = "done"
               /\ outcome' = [success |-> TRUE, response |-> SuccessMarker]
  /\ UNCHANGED <<other, args, missing, attempt, calls, waits, textRead, fault>>

\* fetch rejects with an error of the transport
FetchRejects ==
  /\ pc = "fetch"
  /\ \E e \in ThrownErrors :
       /\ log' = Append(log, LogError(e))
       /\ LoopCatch(e)
  /\ UNCHANGED <<other, args, missing, attempt, calls, timers, response, textRead>>

\* one AbortController for the whole call
Aborts_SharedController(i, n) == TRUE

\* the timer armed by attempt i aborts the fetch of attempt n: each
\* iteration creates its own AbortController and passes its signal to its
\* own fetch
Aborts(i, n) == i = n

\* a timeout that can abort the attempt in flight fires: controller.abort()
\* makes the pending fetch reject
TimeoutAborts ==
  /\ pc = "fetch"
  /\ \E i \in timers :
       /\ Aborts(i, attempt)
       /\ timers' = timers \ {i}
  /\ log' = Append(log, LogTimeout)
  /\ LoopCatch(AbortError)
  /\ UNCHANGED <<other, args, missing, attempt, calls, response, textRead>>

\* a timer left pending by an attempt that already ended fires: it aborts
\* the controller of that attempt, which nothing listens to any more
StaleTimeoutFires ==
  /\ \E i \in timers :
       /\ ~(pc = "fetch" /\ Aborts(i, attempt))
       /\ timers' = timers \ {i}
  /\ UNCHANGED <<other, args, pc, missing, attempt, calls, waits, log, response,
                 textRead, outcome, fault>>

\* the backoff sleep ends: attempt++, then the next iteration of the loop,
\* or, past the loop, `throw new Error("Max retries exceeded")`
BackoffEnds ==
  /\ pc = "backoff"
  /\ IF attempt + 1 <= maxRetries
     THEN /\ StartAttempt(attempt + 1)
          /\ UNCHANGED <<outcome, fault>>
     ELSE /\ HandlerCatch(MaxRetriesError)
          /\ UNCHANGED <<attempt, calls, timers>>
  /\ UNCHANGED <<other, args, missing, waits, log, response, textRead>>

\* `await response.text().catch(() => "")` settles, then the throw
ErrorTextSettles ==
  /\ pc = "errText"
  /\ \E read \in BOOLEAN :
       /\ textRead' = IF read THEN "resolved" ELSE "rejected"
       /\ HandlerCatch(Err(ApiErrorMessage(response.status,
                            IF read THEN response.body ELSE <<>>)))
  /\ UNCHANGED <<other, args, missing, attempt, calls, waits, timers, log, response>>

\* parses whatever text arrived
ParseBody_NoEmptyCheck(text) == JSONparse(text)

\* `text.trim() ? JSON.parse(text) : { success: true }`
ParseBody(text) ==
  IF Trim(text) = <<>>
  THEN [threw |-> FALSE, value |-> SuccessMarker, error |-> NoMessageError]
  ELSE JSONparse(text)

\* `await response.text()` resolves: parse, return
TextResolves ==
  /\ pc = "text"
  /\ textRead' = "resolved"
  /\ IF ParseBody(response.body).threw
     THEN HandlerCatch(ParseBody(response.body).error)
     ELSE /\ pc' = "done"
          /\ outcome' = [success |-> TRUE,
                         response |-> ParseBody(response.body).value]
          /\ fault' = fault
  /\ UNCHANGED <<other, args, missing, attempt, calls, waits, timers, log, response>>

\* `await response.text()` rejects
TextRejects ==
  /\ pc = "text"
  /\ textRead' = "rejected"
  /\ \E e \in BodyErrors : HandlerCatch(e)
  /\ UNCHANGED <<other, args, missing, attempt, calls, waits, timers, log, response>>

Init == InitWith(SubmitRecords(SubmitEdits))

\* two records: complete, or FirstName empty
TwoRecords ==
  {CompleteRecord,
   MakeRecord(PatientInformationFields, AddressFields,
              [slot \in {<<"PatientInformation", "FirstName">>} |-> Str(<<>>)])}

\* ------------------------------------------------- two invocations at once
\* the variables of the running invocation
Locals ==
  [args |-> args, pc |-> pc, missing |-> missing, attempt |-> attempt,
   calls |-> calls, waits |-> waits, timers |-> timers, log |-> log,
   response |-> response, textRead |-> textRead, outcome |-> outcome,
   fault |-> fault]

\* the loop counter lives at module scope
SharedNames_Attempt == {"attempt"}

\* the variables that live at module scope and are written by a call: none;
\* attempt, controller, timeoutId, waitTime, response and the rest are
\* declared inside fetchWithRetry and the handler
SharedNames == {}

\* what the invocation that resumes finds in a variable
Resume(name, current, saved) ==
  IF name \in SharedNames THEN current ELSE saved

\* the event loop runs a continuation of the other invocation next
SwitchInvocation ==
  /\ other.pc # "none"
  /\ other' = Locals
  /\ args' = Resume("args", args, other.args)
  /\ pc' = Resume("pc", pc, other.pc)
  /\ missing' = Resume("missing", missing, other.missing)
  /\ attempt' = Resume("attempt", attempt, other.attempt)
  /\ calls' = Resume("calls", calls, other.calls)
  /\ waits' = Resume("waits", waits, other.waits)
  /\ timers' = Resume("timers", timers, other.timers)
  /\ log' = Resume("log", log, other.log)
  /\ response' = Resume("response", response, other.response)
  /\ textRead' = Resume("textRead", textRead, other.textRead)
  /\ outcome' = Resume("outcome", outcome, other.outcome)
  /\ fault' = Resume("fault", fault, other.fault)

InitTwo ==
  /\ args \in TwoRecords
  /\ pc = "start"
  /\ missing = <<>>
  /\ attempt = 0
  /\ calls = 0
  /\ waits = <<>>
  /\ timers = {}
  /\ log = <<>>
  /\ response = NoResponse
  /\ textRead = "none"
  /\ outcome = NoOutcome
  /\ fault = NoFault
  /\ other \in {StartLocals(a) : a \in TwoRecords}

NextTwo ==
  \/ Submit
  \/ FetchResolves
  \/ FetchRejects
  \/ TimeoutAborts
  \/ StaleTimeoutFires
  \/ BackoffEnds
  \/ ErrorTextSettles
  \/ TextResolves
  \/ TextRejects
  \/ SwitchInvocation

SpecTwo == InitTwo /\ [][NextTwo]_vars

Next ==
  \/ Submit
  \/ FetchResolves
  \/ FetchRejects
  \/ TimeoutAborts
  \/ StaleTimeoutFires
  \/ BackoffEnds
  \/ ErrorTextSettles
  \/ TextResolves
  \/ TextRejects

Spec == Init /\ [][Next]_vars

\* what the runtime guarantees: the handler runs once called, and a timer set
\* by setTimeout fires (the 30 s timeouts and the backoff sleeps); nothing
\* makes the remote end answer a request or finish a response body
TimersFire ==
  /\ WF_vars(Submit)
  /\ WF_vars(TimeoutAborts)
  /\ WF_vars(StaleTimeoutFires)
  /\ WF_vars(BackoffEnds)

InitLive == InitWith(TwoRecords)

SpecLive == InitLive /\ [][Next]_vars /\ TimersFire


\* ================================================================ properties
Terminal == pc \in {"done", "rejected"}

\* a fetch call that ended with a thrown error the classifier calls network
NetFailure(entry) ==
  /\ entry.kind = "error"
  /\ entry.error.hasMessage
  /\ isNetworkError(entry.error)

\* a fetch call that ended with a thrown error (an abort included) for which
\* the classifier answers "not a network error"
OtherFailure(entry) ==
  /\ entry.kind \in {"error", "timeout"}
  /\ entry.error.hasMessage
  /\ ~isNetworkError(entry.error)

\* m lists paths of DeclaredPaths in increasing declaration order
InDeclarationOrder(m) ==
  \E idx \in [DOMAIN m -> DOMAIN DeclaredPaths] :
     /\ \A i \in DOMAIN m : DeclaredPaths[idx[i]] = m[i]
     /\ \A i, j \in DOMAIN m : i < j => idx[i] < idx[j]

\* C1: a record is never sent (no fetch call is issued) unless every one of
\* the 13 required fields is present in it and non-blank after trimming
C1Claim == calls > 0 => Complete(args)

\* C2: when validate returns a non-empty list, submit returns at once the
\* failure object that lists the missing paths and carries no network flag,
\* and no fetch call is made
C2Thm ==
  (pc # "start" /\ missing # <<>>) =>
     /\ pc = "done"
     /\ calls = 0 /\ log = <<>> /\ waits = <<>> /\ timers = {}
     /\ outcome.success = FALSE
     /\ DOMAIN outcome = {"success", "error"}
     /\ \A i \in DOMAIN missing : missing[i] \in Range(outcome.error)

C2Witness ==
  pc = "done" /\ missing # <<>> /\ calls = 0 /\ outcome.success = FALSE

\* C3: for every required field that is blank, whitespace-only or absent,
\* validate's output contains its dotted path, and the output is in
\* declaration order (PatientInformation paths first, then Address paths,
\* each group in its declared field order)
C3Claim ==
  pc = "validated" =>
     /\ \A slot \in Slots :
          FieldIsMissing(args, slot) => Path(slot[1], slot[2]) \in Range(missing)
     /\ InDeclarationOrder(missing)

\* C4: for every record whose 13 fields are all non-blank after trimming,
\* validate returns the empty sequence, and the call changes nothing else
C4Thm ==
  (pc # "start" /\ Complete(args)) =>
     /\ pc = "validated"
     /\ missing = <<>>
     /\ calls = 0 /\ log = <<>> /\ timers = {} /\ outcome = NoOutcome

C4Witness ==
  /\ pc = "validated"
  /\ Complete(args)
  /\ \E slot \in Slots : FieldValue(args, slot) = PaddedValue

\* C5: a submit never makes more than 3 fetch calls, and makes exactly one
\* per iteration of the retry loop, whatever the transport answers
C5Thm ==
  /\ calls <= 3
  /\ calls = attempt
  /\ Len(log) = (IF pc = "fetch" THEN calls - 1 ELSE calls)

C5Witness ==
  /\ pc = "done" /\ calls = 3
  /\ \E i \in DOMAIN log : log[i].kind = "timeout"

\* the transport fails attempts 1 and 2 with a network-classified error and
\* answers attempt 3 with a successful status
FailsTwiceThenSucceeds ==
  /\ Len(log) = 3
  /\ NetFailure(log[1]) /\ NetFailure(log[2])
  /\ log[3].kind = "response" /\ ok(log[3].response)

\* the body of the response needs no reading, or was read and is blank or
\* well-formed JSON
BodyAccepted ==
  \/ ~includes(response.contentType, <<"application/json">>)
  \/ /\ textRead = "resolved"
     /\ (Trim(response.body) = <<>> \/ Trim(response.body) \in JsonTexts)

\* C6 (as claimed): for a valid record, network failure, network failure,
\* then a successful response (whose body is delivered, if it is read):
\* submit returns Submitted after exactly 3 fetch calls and two waits of
\* 1000 ms and 2000 ms, in that order
C6Claim ==
  (Complete(args) /\ Terminal /\ FailsTwiceThenSucceeds
   /\ textRead # "rejected") =>
     /\ pc = "done" /\ outcome.success = TRUE
     /\ calls = 3
     /\ waits = <<1000, 2000>>

\* C6 (amended): the same, for a third response whose body, when declared
\* JSON, is read without error and is blank or well-formed JSON; in every
\* case there are exactly 3 fetch calls and the waits 1000 ms, 2000 ms
C6Thm ==
  FailsTwiceThenSucceeds =>
     /\ calls = 3
     /\ waits = <<1000, 2000>>
     /\ (Terminal /\ BodyAccepted) =>
           (pc = "done" /\ outcome.success = TRUE
            /\ DOMAIN outcome = {"success", "response"})

C6Witness ==
  /\ Complete(args)
  /\ pc = "done" /\ FailsTwiceThenSucceeds /\ BodyAccepted
  /\ outcome.success = TRUE
  /\ waits = <<1000, 2000>>

\* C7: when every attempt fails with a network-classified error, submit
\* returns the failure object with isNetworkError = true, after exactly 3
\* fetch calls and not before
C7Thm ==
  (Terminal /\ log # <<>> /\ \A i \in DOMAIN log : NetFailure(log[i])) =>
     /\ pc = "done"
     /\ calls = 3 /\ Len(log) = 3
     /\ outcome.success = FALSE
     /\ outcome.isNetworkError = TRUE

C7Witness ==
  /\ pc = "done" /\ calls = 3
  /\ \A i \in 1..3 : NetFailure(log[i])
  /\ outcome.isNetworkError = TRUE

\* C8: an attempt that fails with a thrown error the classifier does not
\* call a network error is the last one: no fetch call and no wait follows
\* it, and submit returns the failure object with isNetworkError = false
C8Thm ==
  \A i \in DOMAIN log :
     OtherFailure(log[i]) =>
        /\ i = Len(log) /\ calls = i
        /\ Len(waits) = i - 1
        /\ pc = "done"
        /\ outcome.success = FALSE
        /\ outcome.isNetworkError = FALSE

C8Witness ==
  /\ pc = "done" /\ Len(log) = 2 /\ calls = 2
  /\ NetFailure(log[1])
  /\ log[2].kind = "error" /\ OtherFailure(log[2])
  /\ outcome.isNetworkError = FALSE

\* C9: after a response with a non-success status no further fetch call is
\* made, and submit returns a failure object whose message contains the
\* status code and the body text that was read
C9Thm ==
  \A i \in DOMAIN log :
     (log[i].kind = "response" /\ ~ok(log[i].response)) =>
        /\ i = Len(log) /\ calls = i
        /\ pc \in {"errText", "done"}
        /\ pc = "done" =>
             /\ outcome.success = FALSE
             /\ includes(outcome.error, <<ToString(log[i].response.status)>>)
             /\ textRead = "resolved" =>
                  includes(outcome.error, log[i].response.body)

C9Witness ==
  /\ pc = "done" /\ textRead = "resolved"
  /\ response.status = 500 /\ response.body = <<"Internal", "error">>
  /\ includes(outcome.error, <<"500">>)
  /\ includes(outcome.error, <<"Internal", "error">>)

\* C10: an attempt aborted by its 30 s timeout is treated as a transient
\* network error: after attempt 1 or 2 a backoff and a retry follow, and
\* when the last attempt timed out the failure has isNetworkError = true
C10Claim ==
  \A i \in DOMAIN log :
     (Complete(args) /\ log[i].kind = "timeout") =>
        /\ i < maxRetries => (Len(waits) >= i /\ (i = Len(log) => pc = "backoff"))
        /\ (i = maxRetries /\ pc = "done") =>
             (outcome.success = FALSE /\ outcome.isNetworkError = TRUE)

\* C11: no fault escapes submit: whatever the record and whatever the
\* transport, the body read or the parse throws, the handler returns an
\* object with success = false and never rejects
C11Claim ==
  /\ pc # "rejected"
  /\ (pc = "done" /\ (log = <<>> \/ log[Len(log)].kind # "response")) =>
        outcome.success = FALSE

\* the last fetch call returned a response with a successful HTTP status
LastResponseOk ==
  /\ log # <<>>
  /\ log[Len(log)].kind = "response"
  /\ log[Len(log)].response.status \in 200..299

\* C12 (as claimed): whenever a fetch call returns a successful HTTP status
\* (and the body, if read, is delivered) submit returns Submitted
C12Claim ==
  (Terminal /\ LastResponseOk /\ textRead # "rejected") =>
     (pc = "done" /\ outcome.success = TRUE)

\* C12 (amended): after a successful HTTP status whose body, when the
\* content type is JSON, is read without error and is blank or well-formed
\* JSON, submit returns Submitted: with the parsed body when the content
\* type is JSON and the body is not blank, otherwise with {success: true}
C12Thm ==
  (Terminal /\ LastResponseOk /\ BodyAccepted) =>
     /\ pc = "done"
     /\ DOMAIN outcome = {"success", "response"}
     /\ outcome.success = TRUE
     /\ outcome.response =
          (IF /\ includes(response.contentType, <<"application/json">>)
              /\ Trim(response.body) # <<>>
           THEN [json |-> Trim(response.body)]
           ELSE [json |-> <<"{", "success", ":", "true", "}">>])

C12Witness ==
  /\ pc = "done" /\ LastResponseOk
  /\ includes(response.contentType, <<"application/json">>)
  /\ textRead = "resolved"
  /\ Trim(response.body) = <<>>
  /\ outcome.success = TRUE

\* the failure object for a caught error that has a message
FailureOf(e) ==
  [success |-> FALSE, error |-> e.message, isNetworkError |-> isNetworkError(e)]

\* what an invocation with variables l returns when it runs alone with the
\* record l.args, the transport results l.log and the body read l.textRead
SoloOutcome(l) ==
  LET v == validatePatientData(l.args)
      last == l.log[Len(l.log)]
      r == last.response
  IN IF v.threw THEN FailureOf(v.error)
     ELSE IF v.missing # <<>>
     THEN [success |-> FALSE, error |-> MissingMessage(v.missing)]
     ELSE IF last.kind # "response"
     THEN FailureOf(IF last.error.hasMessage THEN last.error
                    ELSE ToLowerTypeError)
     ELSE IF r.status \notin 200..299
     THEN FailureOf(Err(ApiErrorMessage(r.status,
                      IF l.textRead = "resolved" THEN r.body ELSE <<>>)))
     ELSE IF ~includes(r.contentType, <<"application/json">>)
     THEN [success |-> TRUE, response |-> SuccessMarker]
     ELSE IF l.textRead = "rejected" THEN FailureOf(Err(<<"terminated">>))
     ELSE IF ParseBody(r.body).threw THEN FailureOf(ParseBody(r.body).error)
     ELSE [success |-> TRUE, response |-> ParseBody(r.body).value]

\* the fetch calls and the waits of an invocation that runs alone: one call
\* per transport result (plus the one in flight), one wait per retry
SoloCounts(l) ==
  LET n == Len(l.log) + (IF l.pc = "fetch" THEN 1 ELSE 0)
  IN /\ l.calls = n
     /\ l.attempt = n
     /\ l.waits = SubSeq(<<1000, 2000>>, 1,
                         IF l.pc = "backoff" THEN n
                         ELSE IF n = 0 THEN 0 ELSE n - 1)
     /\ l.timers \subseteq 1..n

AsAlone(l) ==
  /\ SoloCounts(l)
  /\ l.pc = "done" => l.outcome = SoloOutcome(l)

\* C13: under every interleaving of two invocations, each makes the fetch
\* calls and waits and returns the outcome that its own record and its own
\* transport results give when it runs alone
C13Thm == AsAlone(Locals) /\ AsAlone(other)

\* both invocations are under way at once
C13Witness ==
  /\ pc = "text" /\ Len(log) = 3
  /\ other.pc = "backoff" /\ other.attempt = 2
  /\ other.timers = {1, 2}

\* C14: the timeout timer of an attempt is cleared on every exit path: a
\* timer is pending only while the fetch of its own attempt is in flight
C14Claim ==
  Complete(args) => \A i \in timers : pc = "fetch" /\ attempt = i

\* C15: a failure caused by a non-success HTTP status is reported with
\* isNetworkError = false, whatever the status and the body text
C15Claim ==
  (/\ Complete(args)
   /\ pc = "done"
   /\ log[Len(log)].kind = "response"
   /\ log[Len(log)].response.status \notin 200..299) =>
     (outcome.success = FALSE /\ outcome.isNetworkError = FALSE)

\* C16: the k-th wait lasts 1000 * 2^(k-1) ms and lies between a network
\* failure of attempt k < 3 and attempt k+1; there is no wait after the
\* third attempt, after a non-retryable error or after a response, so at
\* most 2 waits of at most 3000 ms in all
C16Thm ==
  /\ Len(waits) <= 2
  /\ \A k \in DOMAIN waits :
       /\ waits[k] = 1000 * 2^(k - 1)
       /\ k < 3 /\ k <= Len(log) /\ NetFailure(log[k])
       /\ IF pc = "backoff" /\ k = Len(waits)
          THEN calls = k /\ Len(log) = k
          ELSE calls >= k + 1
  /\ Len(waits) = Cardinality({i \in DOMAIN log : i < 3 /\ NetFailure(log[i])})
  /\ (IF waits = <<>> THEN 0
      ELSE IF Len(waits) = 1 THEN waits[1]
      ELSE waits[1] + waits[2]) <= 3000

C16Witness ==
  /\ pc = "done" /\ Len(log) = 3 /\ NetFailure(log[3])
  /\ waits = <<1000, 2000>>
  /\ outcome.success = FALSE

\* C17: provided timers fire, every invocation eventually resolves, even
\* when the remote end never answers or never finishes a response body
C17Claim == <>Terminal

\* the record passed validation: validate returned an empty list
PassedValidation ==
  /\ ~validatePatientData(args).threw
  /\ validatePatientData(args).missing = <<>>

\* C18: a returned outcome has success = true only if the record passed
\* validation and the last fetch call returned a response with a status in
\* 200..299; a returned outcome is either success = true with a response and
\* no error, or success = false with an error message and no response; the
\* outcome of a failed validation has no isNetworkError flag
C18Thm ==
  pc = "done" =>
    /\ outcome.success \in BOOLEAN
    /\ outcome.success =>
         /\ PassedValidation
         /\ log # <<>>
         /\ log[Len(log)].kind = "response"
         /\ log[Len(log)].response.status \in 200..299
         /\ DOMAIN outcome = {"success", "response"}
    /\ ~outcome.success =>
         /\ "error" \in DOMAIN outcome
         /\ Len(outcome.error) > 0
         /\ "response" \notin DOMAIN outcome
    /\ (~validatePatientData(args).threw /\ ValidationFails(missing)) =>
         /\ ~outcome.success
         /\ DOMAIN outcome = {"success", "error"}
         /\ calls = 0

C18Witness ==
  /\ pc = "done" /\ outcome.success = TRUE
  /\ PassedValidation
  /\ textRead = "none" /\ Len(log) = 2
  /\ log[1].kind = "error" /\ log[2].kind = "response"

\* timer i goes off in this step although the fetch of attempt i is not the
\* one in flight
StaleFires(i) ==
  /\ i \in timers /\ i \notin timers'
  /\ ~(pc = "fetch" /\ attempt = i)

\* an attempt is ended by its timeout in this step
AttemptAborted ==
  /\ Len(log') = Len(log) + 1
  /\ log'[Len(log')].kind = "timeout"

\* C19: timeouts are independent per attempt: a step in which the timer of
\* attempt i goes off while attempt i is no longer in flight changes nothing
\* but the set of pending timers (no abort of the attempt in flight, same
\* attempt count, same outcome), and an attempt is aborted only by the timer
\* it armed itself
C19Thm ==
  [][/\ \A i \in timers : StaleFires(i) =>
           /\ timers' = timers \ {i}
           /\ UNCHANGED <<pc, attempt, calls, waits, log, response, textRead,
                          outcome, fault>>
     /\ AttemptAborted =>
           /\ pc = "fetch"
           /\ attempt \in timers
           /\ timers' = timers \ {attempt}]_vars

\* attempt 2 is in flight and the timer left by attempt 1 has gone off
C19Witness ==
  /\ pc = "fetch" /\ attempt = 2 /\ calls = 2
  /\ Len(log) = 1 /\ log[1].kind = "error"
  /\ timers = {2}

\* the fixed network-failure signatures, in lower case
LowerSignatures ==
  {<<"failed", "to", "fetch">>,
   <<"network", "error">>,
   <<"networkerror", "when", "attempting", "to", "fetch", "resource">>,
   <<"load", "failed">>,
   <<"connection", "failed">>,
   <<"econnrefused">>,
   <<"enotfound">>,
   <<"etimedout">>}

\* msg contains one of the signatures, whatever the case of its letters
ContainsSignature(msg) ==
  \E sig \in LowerSignatures : includes(toLowerCase(msg), sig)

\* the last fetch call ended with a thrown error that has a message
LastAttemptThrew ==
  /\ PassedValidation
  /\ log # <<>>
  /\ log[Len(log)].kind \in {"error", "timeout"}
  /\ log[Len(log)].error.hasMessage

\* C20: when submit returns after the last fetch call ended with a thrown
\* error, the failure object carries that error's message (not the message
\* of an earlier attempt), and its isNetworkError flag is true exactly when
\* that message contains, case-insensitively, one of the network-failure
\* signatures; the same answer decided that no retry followed
C20Thm ==
  (pc = "done" /\ LastAttemptThrew) =>
    LET last == log[Len(log)].error
    IN /\ outcome.success = FALSE
       /\ outcome.error = last.message
       /\ outcome.isNetworkError = ContainsSignature(last.message)
       /\ Len(log) = calls
       /\ Len(log) < 3 => ~ContainsSignature(last.message)
       /\ \A i \in 1..(Len(log) - 1) :
            /\ log[i].kind \in {"error", "timeout"}
            /\ log[i].error.hasMessage
            /\ ContainsSignature(log[i].error.message)

\* two network-classified failures, then a third error of another kind:
\* the outcome reports the third
C20Witness ==
  /\ pc = "done" /\ Len(log) = 3
  /\ log[1].error = Err(<<"connect", "ECONNREFUSED">>)
  /\ log[2].error = Err(<<"connect", "ECONNREFUSED">>)
  /\ log[3].error = Err(<<"fetch", "failed">>)
  /\ outcome.error = <<"fetch", "failed">>
  /\ outcome.isNetworkError = FALSE

====
